---- MODULE Spec2Model ----
(***************************************************************************)
(* Model of the Feishu task utilities (scripts/bulk_operations.py,         *)
(* scripts/task_manager.py, scripts/task_notifier.py).                     *)
(*                                                                         *)
(* Spec      : one run of a bulk operation of BulkTaskOperations, stepped  *)
(*             statement by statement through the per-item try/except.     *)
(* SpecWrap  : invocations of the single-operation wrappers of             *)
(*             FeishuTaskManager and of the senders of TaskNotifier.       *)
(*                                                                         *)
(* The remote API, the request builders, print() and time.sleep() are      *)
(* external: every outcome they can produce (return with the success flag  *)
(* set, return with it cleared, raise) is a nondeterministic choice.       *)
(* Delays are counted in tenths of a second.                               *)
(***************************************************************************)
EXTENDS Integers, Sequences, FiniteSets, TLC

\* ---------------------------------------------------------------- bounds
MaxItems == 3
TaskIds == {"t1", "t2"}

\* ------------------------------------------------------ program constants
DefaultDelay == 2
RejectCode == 99991663

ImportOps == {"import_from_csv", "import_from_json"}
IdOps == {"bulk_assign", "bulk_update_status", "bulk_set_due_date", "bulk_delete"}
BulkOps == ImportOps \cup IdOps

\* ------------------------------------------------------------------ state
VARIABLES
    op,          \* the bulk method that was called
    items,       \* its input sequence (rows, JSON elements or task ids)
    tasklist_id, \* TRUE when a tasklist id was passed (import only)
    delay,       \* the delay argument (id operations)
    i,           \* number of items the for loop has taken so far
    pc,          \* position inside the method
    results,     \* the ledger: [ok |-> <<..>>, failed |-> <<..>>]
    ledgerPos,   \* history: input position of every ledger entry
    response,    \* the response of the current item's remote call
    exc,         \* str(e) of the exception being handled
    trace,       \* history: remote calls and pauses, in order
    ret,         \* what the caller received
    wop,         \* wrapper invoked (SpecWrap)
    wargs,       \* its arguments that matter
    wtrace,      \* remote calls it issued, with their outcomes
    wlogged,     \* diagnostics it printed
    wret,        \* its return value
    centry,      \* "cli" (script run from the shell) or "ctor" (class constructed)
    cscript,     \* which of the three scripts / classes
    cenv,        \* FEISHU_APP_ID / FEISHU_APP_SECRET of the environment
    cargs,       \* app_id / app_secret passed to the constructor
    ccmd,        \* the subcommand on the command line, "none" when missing
    cpc,         \* position inside the script
    cexit,       \* exit status of the process, -1 while it runs
    cout,        \* what the script printed
    ccalls,      \* remote calls issued
    rop,         \* "generate_task_report" or "send_daily_digest"
    rremote,     \* the task records the list call would return
    rnow,        \* datetime.now() of the run
    rpc,         \* position inside the method
    rfetched,    \* `tasks`: the list the method works on
    rk,          \* number of tasks the report loop has taken
    report,      \* the partitions built so far
    rret,        \* what the caller received
    rtarget,     \* assignee or FEISHU_USER_ID, "" when neither is set
    rcard,       \* the card handed to _send_message
    rsent,       \* outcomes of the message calls issued
    epath,       \* output_path argument of export_to_csv, "" when omitted
    eremote,     \* the task records the list call would return
    epc,         \* position inside export_to_csv
    etasks,      \* `tasks`: the list being exported
    ek,          \* number of tasks written so far
    efile,       \* the output file: [exists, closed, path, content]
    eret,        \* what the caller received
    arows,       \* assignee column of the rows of the CSV file being imported
    adefault,    \* default_assignee argument of import_from_csv
    ak,          \* number of rows whose request body has been built
    abodies      \* assignee part of the request bodies built, in row order

bulkVars == <<op, items, tasklist_id, delay, i, pc, results, ledgerPos,
              response, exc, trace, ret>>
wrapVars == <<wop, wargs, wtrace, wlogged, wret>>
cliVars == <<centry, cscript, cenv, cargs, ccmd, cpc, cexit, cout, ccalls>>
vars == <<op, items, tasklist_id, delay, i, pc, results, ledgerPos,
          response, exc, trace, ret, wop, wargs, wtrace, wlogged, wret,
          centry, cscript, cenv, cargs, ccmd, cpc, cexit, cout, ccalls,
          rop, rremote, rnow, rpc, rfetched, rk, report, rret,
          rtarget, rcard, rsent,
          epath, eremote, epc, etasks, ek, efile, eret,
          arows, adefault, ak, abodies>>
repVars == <<rop, rremote, rnow, rpc, rfetched, rk, report, rret,
             rtarget, rcard, rsent>>
expVars == <<epath, eremote, epc, etasks, ek, efile, eret>>
asgVars == <<arows, adefault, ak, abodies>>
\* Everything outside one part of the model.
notBulkVars == <<wrapVars, cliVars, repVars, expVars, asgVars>>
notWrapVars == <<bulkVars, cliVars, repVars, expVars, asgVars>>
notCliVars == <<bulkVars, wrapVars, repVars, expVars, asgVars>>
notRepVars == <<bulkVars, wrapVars, cliVars, expVars, asgVars>>
notExpVars == <<bulkVars, wrapVars, cliVars, repVars, asgVars>>
notAsgVars == <<bulkVars, wrapVars, cliVars, repVars, expVars>>

\* ------------------------------------------------------------ input data
\* Sequences of length 0..n over S.
SeqUpTo(S, n) == UNION {[1..k -> S] : k \in 0..n}

\* What one input item can be.  A CSV row is always a dict (csv.DictReader);
\* an element of the JSON array is whatever json.load produced, a dict or
\* something else (here a string); the id operations take bare strings.
ItemsOf(o) ==
    IF o = "import_from_csv" THEN [title : TaskIds, shape : {"dict"}]
    ELSE IF o = "import_from_json"
         THEN [title : TaskIds, shape : {"dict"}] \cup [title : {"t1"}, shape : {"str"}]
    ELSE TaskIds

\* Delay arguments a caller can pass; a negative one makes time.sleep raise.
DelaysOf(o) == IF o \in ImportOps THEN {DefaultDelay} ELSE {-1, 0, DefaultDelay}

NoResponse == [success |-> FALSE, code |-> -1, msg |-> "none"]
OkResponse == [success |-> TRUE, code |-> 0, msg |-> "success"]
RejectResponse == [success |-> FALSE, code |-> RejectCode, msg |-> "not found"]
\* Outcomes of one remote call: a response, or an exception.
CallOutcomes == {"ok", "reject", "raise"}
ResponseOf(o) == IF o = "ok" THEN OkResponse ELSE RejectResponse

EmptyLedger == [ok |-> <<>>, failed |-> <<>>]
\* What the caller of a bulk method has in hand.
NotReturned == [kind |-> "none", ledger |-> EmptyLedger, error |-> "none"]
Returned(l) == [kind |-> "ledger", ledger |-> l, error |-> "none"]
Raised(e) == [kind |-> "exception", ledger |-> EmptyLedger, error |-> e]
Event(e, k, o, d) == [ev |-> e, pos |-> k, out |-> o, d |-> d]


\* ------------------------------------------------- the code's own helpers
\* `for x in xs`: the loop takes item k+1 while one is left.
HasNextFirstOnly(k, xs) == k < Len(xs) /\ k = 0
HasNextDoWhile(k, xs) == k < Len(xs) \/ k = 0
HasNext(k, xs) == k < Len(xs)

\* task_data.get(...) of import_from_json raises AttributeError on an
\* element that is not a dict; every other request builder is SDK code
\* that may return or raise.
BuildOutcomes(o, item) ==
    IF o = "import_from_json" /\ item.shape # "dict" THEN {"raise"}
    ELSE {"ok", "raise"}

BuildError(o, item) ==
    IF o = "import_from_json" /\ item.shape # "dict"
    THEN "'str' object has no attribute 'get'"
    ELSE "request build failed"

\* response.success(): the API's explicit flag.
ClassifyByReturn(r) == TRUE
ResponseSuccess(r) == r.success

\* f"{response.code}: {response.msg}"
FormatError(r) == ToString(r.code) \o ": " \o r.msg

\* The key under which a failure entry stores its item.
ItemKey(o) ==
    IF o = "import_from_csv" THEN "row"
    ELSE IF o = "import_from_json" THEN "data"
    ELSE "task_id"

FailureEntry(o, item, msg) == [key |-> ItemKey(o), item |-> item, error |-> msg]

\* What goes into the success list: response.data.task for the imports
\* (the task the remote created from the item), the task id otherwise.
SuccessEntry(o, item) ==
    IF o \in ImportOps THEN [task_id |-> item.title, summary |-> item.title]
    ELSE item

\* The pause of a method: the literal 0.2 in the imports, the delay
\* argument in the id operations.
DelayOfIgnoresArg(o, d) == DefaultDelay
DelayOf(o, d) == IF o \in ImportOps THEN DefaultDelay ELSE d

\* Which methods take a `delay` argument at all.
HasDelayParam(o) == o \in IdOps

\* time.sleep raises ValueError on a negative length.
SleepRaises(d) == d < 0

\* _add_to_tasklist: try: ... add_task(request) / except: pass.  The
\* response is not looked at and nothing is re-raised.
AddToTasklistReraises(o) == o = "raise"
AddToTasklistPropagates(o) == FALSE

\* Does the except block of the method print after appending?
HandlerPrints(o) == o \in {"import_from_csv", "import_from_json", "bulk_assign"}

\* The handler's print evaluates row.get('title') / task_data.get('title'):
\* on a non-dict JSON element that raises again, outside any try.
HandlerPrintOutcomes(o, item) ==
    IF o = "import_from_json" /\ item.shape # "dict" THEN {"raise"}
    ELSE {"ok", "raise"}

CurItem == items[i]

\* After the remote call: the if/else when it returned, the except block
\* when it raised.  Nothing calls again.
RetryAfterRaise(o) == IF o = "raise" THEN "call" ELSE "classify"
NextAfterCall(o) == IF o = "raise" THEN "except" ELSE "classify"

\* open(path) / json.load(f) of the imports, before the loop and outside
\* any try: they return, or raise (file missing, malformed JSON).
FileOutcomes == {"ok", "unreadable"}
FileError == "import file unreadable"
AfterOpen(f) == IF f = "ok" THEN "loop" ELSE "raised"

\* Where a method starts: the imports open their file first.
StartOf(o) == IF o \in ImportOps THEN "open" ELSE "loop"

\* ------------------------------------------------------------------ Init
EmptyReport == [total |-> 0, todo |-> <<>>, in_progress |-> <<>>,
                completed |-> <<>>, overdue |-> <<>>]
RNotReturned == [kind |-> "none", report |-> EmptyReport, error |-> "none"]

NoFile == [exists |-> FALSE, closed |-> FALSE, path |-> "", content |-> <<>>]
ENotReturned == [kind |-> "none", value |-> "", error |-> "none"]

\* No row of an import is being turned into a request body.
AsgIdle ==
    /\ arows = <<>>
    /\ adefault = [given |-> FALSE, v |-> ""]
    /\ ak = 0
    /\ abodies = <<>>

\* No export is running.
ExpIdle ==
    /\ epath = ""
    /\ eremote = <<>>
    /\ epc = "idle"
    /\ etasks = <<>>
    /\ ek = 0
    /\ efile = NoFile
    /\ eret = ENotReturned

\* A card: the counts in its text, the tasks it lists, and N of its
\* "... and N more" line (0: no such line).
NoCard == [counts |-> <<>>, shown |-> <<>>, more |-> 0]

\* No report or digest is being computed.
RepIdle ==
    /\ rtarget = ""
    /\ rcard = NoCard
    /\ rsent = <<>>
    /\ rop = "none"
    /\ rremote = <<>>
    /\ rnow = 0
    /\ rpc = "idle"
    /\ rfetched = <<>>
    /\ rk = 0
    /\ report = EmptyReport
    /\ rret = RNotReturned

\* No script is running.
CliIdle ==
    /\ centry = "none"
    /\ cscript = "none"
    /\ cenv = [app_id |-> "unset", app_secret |-> "unset"]
    /\ cargs = [app_id |-> "unset", app_secret |-> "unset"]
    /\ ccmd = "none"
    /\ cpc = "idle"
    /\ cexit = -1
    /\ cout = <<>>
    /\ ccalls = 0

\* No wrapper has been invoked.
WrapIdle ==
    /\ wop = "none"
    /\ wargs = [notify_followers |-> TRUE, followers |-> <<>>]
    /\ wtrace = <<>>
    /\ wlogged = <<>>
    /\ wret = [kind |-> "none", val |-> [t |-> "None", v |-> <<>>]]

Init ==
    /\ op \in BulkOps
    /\ items \in SeqUpTo(ItemsOf(op), MaxItems)
    /\ tasklist_id \in (IF op \in ImportOps THEN BOOLEAN ELSE {FALSE})
    /\ delay \in DelaysOf(op)
    /\ i = 0
    /\ pc = StartOf(op)
    /\ results = EmptyLedger
    /\ ledgerPos = EmptyLedger
    /\ response = NoResponse
    /\ exc = "none"
    /\ trace = <<>>
    /\ ret = NotReturned
    /\ WrapIdle
    /\ CliIdle
    /\ RepIdle
    /\ ExpIdle
    /\ AsgIdle

\* ----------------------------------------------- one bulk method, stepped
\* with open(path) as f: ... (import_from_csv, import_from_json)
OpenFile ==
    /\ pc = "open"
    /\ \E f \in FileOutcomes :
         /\ pc' = AfterOpen(f)
         /\ ret' = IF AfterOpen(f) = "raised" THEN Raised(FileError) ELSE ret
         /\ trace' = Append(trace, Event("open", 0, f, 0))
    /\ UNCHANGED <<op, items, tasklist_id, delay, i, results, ledgerPos,
                   response, exc>>
    /\ UNCHANGED notBulkVars

\* for item in items: / return results
LoopHead ==
    /\ pc = "loop"
    /\ IF HasNext(i, items)
       THEN /\ i' = i + 1
            /\ pc' = "build"
            /\ ret' = ret
       ELSE /\ i' = i
            /\ pc' = "done"
            /\ ret' = Returned(results)
    /\ UNCHANGED <<op, items, tasklist_id, delay, results, ledgerPos,
                   response, exc, trace>>
    /\ UNCHANGED notBulkVars

\* try: build the request
Build ==
    /\ pc = "build"
    /\ \E b \in BuildOutcomes(op, CurItem) :
         IF b = "raise"
         THEN pc' = "except" /\ exc' = BuildError(op, CurItem)
         ELSE pc' = "call" /\ exc' = exc
    /\ UNCHANGED <<op, items, tasklist_id, delay, i, results, ledgerPos,
                   response, trace, ret>>
    /\ UNCHANGED notBulkVars

\* response = self.client.task.v2.task.create / update / delete (request)
Call ==
    /\ pc = "call"
    /\ \E o \in CallOutcomes :
         /\ trace' = Append(trace, Event("call", i, o, 0))
         /\ pc' = NextAfterCall(o)
         /\ IF o = "raise"
            THEN exc' = "connection error" /\ response' = response
            ELSE exc' = exc /\ response' = ResponseOf(o)
    /\ UNCHANGED <<op, items, tasklist_id, delay, i, results, ledgerPos, ret>>
    /\ UNCHANGED notBulkVars

\* if response.success(): results[ok].append(..) else: results["failed"].append(..)
Classify ==
    /\ pc = "classify"
    /\ IF ResponseSuccess(response)
       THEN /\ results' = [results EXCEPT !.ok = Append(@, SuccessEntry(op, CurItem))]
            /\ ledgerPos' = [ledgerPos EXCEPT !.ok = Append(@, i)]
            /\ pc' = IF op \in ImportOps /\ tasklist_id THEN "attach" ELSE "print"
       ELSE /\ results' = [results EXCEPT !.failed =
                              Append(@, FailureEntry(op, CurItem, FormatError(response)))]
            /\ ledgerPos' = [ledgerPos EXCEPT !.failed = Append(@, i)]
            /\ pc' = "print"
    /\ UNCHANGED <<op, items, tasklist_id, delay, i, response, exc, trace, ret>>
    /\ UNCHANGED notBulkVars

\* if tasklist_id: self._add_to_tasklist(tasklist_id, task.task_id)
Attach ==
    /\ pc = "attach"
    /\ \E o \in CallOutcomes :
         /\ trace' = Append(trace, Event("attach", i, o, 0))
         /\ IF AddToTasklistPropagates(o)
            THEN pc' = "except" /\ exc' = "attach failed"
            ELSE pc' = "print" /\ exc' = exc
    /\ UNCHANGED <<op, items, tasklist_id, delay, i, results, ledgerPos,
                   response, ret>>
    /\ UNCHANGED notBulkVars

\* the progress print of either branch, still inside the try
PrintProgress ==
    /\ pc = "print"
    /\ \E p \in {"ok", "raise"} :
         IF p = "raise"
         THEN pc' = "except" /\ exc' = "print failed"
         ELSE pc' = "sleep" /\ exc' = exc
    /\ UNCHANGED <<op, items, tasklist_id, delay, i, results, ledgerPos,
                   response, trace, ret>>
    /\ UNCHANGED notBulkVars

\* time.sleep(delay), the last statement of the try
Sleep ==
    /\ pc = "sleep"
    /\ IF SleepRaises(DelayOf(op, delay))
       THEN /\ pc' = "except"
            /\ exc' = "sleep length must be non-negative"
            /\ trace' = trace
       ELSE /\ pc' = "loop"
            /\ exc' = exc
            /\ trace' = Append(trace, Event("sleep", i, "slept", DelayOf(op, delay)))
    /\ UNCHANGED <<op, items, tasklist_id, delay, i, results, ledgerPos,
                   response, ret>>
    /\ UNCHANGED notBulkVars

\* except Exception as e: results["failed"].append({.., "error": str(e)})
Except ==
    /\ pc = "except"
    /\ results' = [results EXCEPT !.failed = Append(@, FailureEntry(op, CurItem, exc))]
    /\ ledgerPos' = [ledgerPos EXCEPT !.failed = Append(@, i)]
    /\ pc' = IF HandlerPrints(op) THEN "hprint" ELSE "loop"
    /\ UNCHANGED <<op, items, tasklist_id, delay, i, response, exc, trace, ret>>
    /\ UNCHANGED notBulkVars

\* the print of the except block: an exception here leaves the method
HandlerPrint ==
    /\ pc = "hprint"
    /\ \E p \in HandlerPrintOutcomes(op, CurItem) :
         IF p = "raise"
         THEN pc' = "raised" /\ ret' = Raised(exc)
         ELSE pc' = "loop" /\ ret' = ret
    /\ UNCHANGED <<op, items, tasklist_id, delay, i, results, ledgerPos,
                   response, exc, trace>>
    /\ UNCHANGED notBulkVars

Next ==
    \/ OpenFile
    \/ LoopHead
    \/ Build
    \/ Call
    \/ Classify
    \/ Attach
    \/ PrintProgress
    \/ Sleep
    \/ Except
    \/ HandlerPrint

Spec == Init /\ [][Next]_vars

\* The interpreter keeps executing the method: a step that can be taken is
\* taken (every remote call, print and sleep returns or raises).
SpecLive == Init /\ [][Next]_vars /\ WF_vars(Next)

\* ------------------------------------------------------ derived history
Range(f) == {f[x] : x \in DOMAIN f}

\* Outcomes of the primary remote call issued for input position k.
CallOutcomesAt(k) ==
    {trace[j].out : j \in {x \in DOMAIN trace : trace[x].ev = "call" /\ trace[x].pos = k}}

\* Outcomes of the tasklist attach issued for input position k.
AttachOutcomesAt(k) ==
    {trace[j].out : j \in {x \in DOMAIN trace : trace[x].ev = "attach" /\ trace[x].pos = k}}

\* Item k has been through the if/else that appends to the ledger.
Classified(k) == k < i \/ (k = i /\ pc \notin {"build", "call", "classify"})

Finished == pc \in {"done", "raised"}

\* ================================================================ claims

\* C1: for every bulk operation and every input of n items, whatever the
\* per-item outcomes and the delay, the returned ledger has
\* len(success) + len(failed) = n.
LedgerCountsEveryItemOnce ==
    ret.kind = "ledger" =>
        Len(ret.ledger.ok) + Len(ret.ledger.failed) = Len(items)

\* C2: one input item yields one outcome, never both: no input position is
\* in the success list and in the failed list, also when a step after the
\* append raises.
NeverBothOutcomes ==
    Range(ledgerPos.ok) \cap Range(ledgerPos.failed) = {}

\* C3: a failing item never prevents the processing of the items after it:
\* when the method is over, every item after a failed one was attempted.
LaterItemsStillAttempted ==
    Finished =>
        \A k \in Range(ledgerPos.failed) : \A j \in (k + 1)..Len(items) : j <= i

\* C4: an exception raised while processing an item is caught at the
\* per-item boundary and never propagates out of the bulk method.
ItemExceptionsNeverPropagate ==
    ~(ret.kind = "exception" /\ i > 0)

\* C5: for an empty input the method never enters the loop body, issues no
\* remote call, makes no pause and returns a ledger with two empty lists.
EmptyInputNoCalls ==
    Len(items) = 0 =>
        /\ pc \in {"open", "loop", "done", "raised"}
        /\ i = 0
        /\ \A j \in DOMAIN trace : trace[j].ev = "open"
        /\ results = EmptyLedger
        /\ (pc = "done" => ret = Returned(EmptyLedger))

EmptyInputReturned ==
    Len(items) = 0 /\ pc = "done" /\ ret.kind = "ledger"

\* C6: an item is in the success list iff its remote call returned with the
\* success flag set; a rejection is recorded in the failed list as
\* "code: msg" and is not turned into an exception.
ClassifiedBySuccessFlag ==
    /\ \A k \in 1..i :
         Classified(k) =>
           /\ (k \in Range(ledgerPos.ok)) <=> ("ok" \in CallOutcomesAt(k))
           /\ "reject" \in CallOutcomesAt(k) =>
                \E b \in DOMAIN results.failed :
                    /\ ledgerPos.failed[b] = k
                    /\ results.failed[b].error = "99991663: not found"
                    /\ \A c \in 1..(b - 1) : ledgerPos.failed[c] # k
    /\ (pc = "except" /\ "reject" \in CallOutcomesAt(i)) =>
           exc \in {"print failed", "sleep length must be non-negative"}

SuccessAndRejectionClassified ==
    /\ pc = "done"
    /\ \E k \in 1..i : "ok" \in CallOutcomesAt(k) /\ k \in Range(ledgerPos.ok)
    /\ \E b \in DOMAIN results.failed :
          /\ "reject" \in CallOutcomesAt(ledgerPos.failed[b])
          /\ results.failed[b].error = "99991663: not found"

\* C7: each list of the ledger is an order-preserving subsequence of the
\* items processed so far: its entries stand for strictly increasing input
\* positions, each carrying the item of its position.
StrictlyIncreasing(s) == \A a, b \in DOMAIN s : a < b => s[a] < s[b]

LedgerListsAreSubsequences ==
    /\ StrictlyIncreasing(ledgerPos.ok)
    /\ StrictlyIncreasing(ledgerPos.failed)
    /\ \A b \in DOMAIN results.failed :
          results.failed[b].item = items[ledgerPos.failed[b]]
    /\ \A a \in DOMAIN results.ok :
          results.ok[a] = SuccessEntry(op, items[ledgerPos.ok[a]])

\* C8: the pause follows every item, succeeded or failed: between the
\* remote calls of two consecutive items there is exactly one pause.
OnePauseBetweenCalls ==
    \A a, b \in DOMAIN trace :
        (/\ a < b
         /\ trace[a].ev = "call"
         /\ trace[b].ev = "call"
         /\ trace[b].pos = trace[a].pos + 1) =>
            Cardinality({j \in (a + 1)..(b - 1) : trace[j].ev = "sleep"}) = 1

\* C9: the tasklist attach is best-effort: it is issued only for an item
\* whose create succeeded and only when a tasklist id was given; whatever
\* its outcome, the ledger is left as it is, no failure entry is added and
\* the method goes on to the statement after it.
AttachIsBestEffort ==
    /\ [](\A j \in DOMAIN trace :
            trace[j].ev = "attach" =>
              /\ tasklist_id
              /\ op \in ImportOps
              /\ "ok" \in CallOutcomesAt(trace[j].pos)
              /\ trace[j].pos \in Range(ledgerPos.ok))
    /\ [][pc = "attach" =>
            /\ results' = results
            /\ ledgerPos' = ledgerPos
            /\ pc' = "print"]_vars

AttachFailedBatchWentOn ==
    /\ pc = "done"
    /\ Len(items) >= 2
    /\ AttachOutcomesAt(1) = {"raise"}
    /\ AttachOutcomesAt(2) = {"reject"}
    /\ Len(results.ok) = 2
    /\ results.failed = <<>>

\* ================================================ single-operation wrappers
MaxFollowers == 2
PermissionDeniedCode == 99991672
UserIds == {"ou_1", "ou_2"}

\* Python values a wrapper hands back.
PyVal(t, v) == [t |-> t, v |-> v]
PyNone == PyVal("None", <<>>)
PyFalse == PyVal("bool", <<"False">>)
PyTrue == PyVal("bool", <<"True">>)
PyBool(b) == IF b THEN PyTrue ELSE PyFalse
PyEmptyList == PyVal("list", <<>>)

\* response.data: one named field holding a value.
Data(field, val) == [field |-> field, val |-> val]
NoData == Data("none", PyNone)

\* Payloads the remote can put into a successful response of an API.
PayloadsOf(api) ==
    IF api \in {"task.create", "task.get", "task.update"}
        THEN {Data("task", PyVal("task", <<"t1">>))}
    ELSE IF api \in {"task.list", "tasklist.list_task"}
        THEN {Data("items", PyVal("list", <<>>)), Data("items", PyVal("list", <<"t1", "t2">>))}
    ELSE IF api \in {"tasklist.create", "tasklist.get", "tasklist.update"}
        THEN {Data("tasklist", PyVal("tasklist", <<"l1">>))}
    ELSE IF api = "raw.tasklists"
        THEN {Data("items", PyVal("list", <<>>)), Data("items", PyVal("list", <<"l1">>))}
    ELSE IF api = "user.batch_get_id"
        THEN {Data("user_list", PyVal("list", u)) : u \in {<<>>, <<"ou_1">>, <<"ou_2", "ou_1">>}}
    ELSE {NoData}

RejectCodes == {PermissionDeniedCode, RejectCode, 1470400}

\* Everything one remote call can come back with.
WrapResponses(api) ==
    {[kind |-> "ok", success |-> TRUE, code |-> 0, msg |-> "success", data |-> d] :
        d \in PayloadsOf(api)}
    \cup {[kind |-> "reject", success |-> FALSE, code |-> c, msg |-> "rejected", data |-> NoData] :
        c \in RejectCodes}
    \cup {[kind |-> "raise", success |-> FALSE, code |-> -1, msg |-> "connection error", data |-> NoData]}

\* One entry of the call history of a wrapper.
WCall(api, to, r) == [api |-> api, to |-> to, r |-> r]
WLog(stream, text) == [stream |-> stream, text |-> text]

\* What the caller of a wrapper has in hand.
WNotCalled == [kind |-> "none", val |-> PyNone]
WReturned(v) == [kind |-> "return", val |-> v]
WRaised == [kind |-> "exception", val |-> PyNone]

\* FeishuTaskManager._handle_response: data, or None after a diagnostic on
\* the error stream.
HandleResponseSilent(r, operation) ==
    [data |-> IF r.success THEN r.data ELSE NoData, log |-> <<>>]
HandleResponse(r, operation) ==
    IF ~r.success
    THEN [data |-> NoData,
          log |-> <<WLog("stderr",
                     operation \o " failed: " \o ToString(r.code) \o " - " \o r.msg
                     \o (IF r.code = PermissionDeniedCode
                           THEN "\nHint: Check app permissions (task:task:read/write)"
                         ELSE IF r.code = RejectCode
                           THEN "\nHint: Task not found, verify task ID"
                         ELSE ""))>>]
    ELSE [data |-> r.data, log |-> <<>>]

\* `data.<field> if data else <sentinel>`
FieldOrSentinel(d, sentinel) == IF d # NoData THEN d.val ELSE sentinel

\* A wrapper of the shape: one call, _handle_response, unwrap.
ViaHandleResponse(name, api, operation, sentinel) ==
    /\ wop = "none"
    /\ \E r \in WrapResponses(api) :
         /\ wop' = name
         /\ wargs' = wargs
         /\ wtrace' = <<WCall(api, "none", r)>>
         /\ IF r.kind = "raise"
            THEN wlogged' = <<>> /\ wret' = WRaised
            ELSE LET h == HandleResponse(r, operation) IN
                 /\ wlogged' = h.log
                 /\ wret' = WReturned(FieldOrSentinel(h.data, sentinel))
    /\ UNCHANGED notWrapVars

\* A wrapper of the shape: one call, return response.success().
ViaSuccessFlag(name, api) ==
    /\ wop = "none"
    /\ \E r \in WrapResponses(api) :
         /\ wop' = name
         /\ wargs' = wargs
         /\ wtrace' = <<WCall(api, "none", r)>>
         /\ wlogged' = <<>>
         /\ wret' = IF r.kind = "raise" THEN WRaised ELSE WReturned(PyBool(r.success))
    /\ UNCHANGED notWrapVars

create_task == ViaHandleResponse("create_task", "task.create", "Create task", PyNone)
get_task == ViaHandleResponse("get_task", "task.get", "Get task", PyNone)
list_my_tasks == ViaHandleResponse("list_my_tasks", "task.list", "List my tasks", PyEmptyList)
list_created_by_me ==
    ViaHandleResponse("list_created_by_me", "task.list", "List created tasks", PyEmptyList)
list_tasks_by_assignee ==
    ViaHandleResponse("list_tasks_by_assignee", "task.list", "List tasks by assignee", PyEmptyList)
get_tasks_due_soon ==
    ViaHandleResponse("get_tasks_due_soon", "task.list", "List tasks due soon", PyEmptyList)
create_tasklist ==
    ViaHandleResponse("create_tasklist", "tasklist.create", "Create tasklist", PyNone)
get_tasklist == ViaHandleResponse("get_tasklist", "tasklist.get", "Get tasklist", PyNone)
update_tasklist ==
    ViaHandleResponse("update_tasklist", "tasklist.update", "Update tasklist", PyNone)
list_tasks_in_tasklist ==
    ViaHandleResponse("list_tasks_in_tasklist", "tasklist.list_task",
                      "List tasks in tasklist", PyEmptyList)

\* update_task arguments: title (sent as summary), description, status,
\* assignee, due_time; each is None, the empty string or a text.
UpdateFields == {"summary", "description", "status", "assignee", "due_time"}
ArgNone == [given |-> FALSE, v |-> ""]
Arg(v) == [given |-> TRUE, v |-> v]
ArgValues == {ArgNone, Arg(""), Arg("v")}

\* `if title:` ... : a field is put into the body when its argument is truthy.
UpdateBodyOfGiven(args) ==
    [f \in {g \in UpdateFields : args[g].given} |-> args[f].v]
UpdateBody(args) ==
    [f \in {g \in UpdateFields : args[g].given /\ args[g].v # ""} |-> args[f].v]

\* self.update_task(task_id, status="completed")
CompleteArgs == [f \in UpdateFields |-> IF f = "status" THEN Arg("completed") ELSE ArgNone]

WCallBody(api, body, r) == [api |-> api, to |-> "none", r |-> r, body |-> body]

\* update_task: build the body, one update call, _handle_response, unwrap;
\* complete_task returns `result is not None` of it.
UpdateTaskCall(name, args, asFlag) ==
    /\ wop = "none"
    /\ \E r \in WrapResponses("task.update") :
         /\ wop' = name
         /\ wargs' = [notify_followers |-> TRUE, followers |-> <<>>, fields |-> args]
         /\ wtrace' = <<WCallBody("task.update", UpdateBody(args), r)>>
         /\ IF r.kind = "raise"
            THEN wlogged' = <<>> /\ wret' = WRaised
            ELSE LET h == HandleResponse(r, "Update task")
                     result == FieldOrSentinel(h.data, PyNone)
                 IN /\ wlogged' = h.log
                    /\ wret' = WReturned(IF asFlag THEN PyBool(result # PyNone) ELSE result)
    /\ UNCHANGED notWrapVars

update_task == \E args \in [UpdateFields -> ArgValues] : UpdateTaskCall("update_task", args, FALSE)

complete_task == UpdateTaskCall("complete_task", CompleteArgs, TRUE)

delete_task == ViaSuccessFlag("delete_task", "task.delete")
delete_tasklist == ViaSuccessFlag("delete_tasklist", "tasklist.delete")
add_task_to_tasklist == ViaSuccessFlag("add_task_to_tasklist", "tasklist.add_task")

\* list_tasklists: raw request; items of the body on success, [] otherwise
list_tasklists ==
    /\ wop = "none"
    /\ \E r \in WrapResponses("raw.tasklists") :
         /\ wop' = "list_tasklists"
         /\ wargs' = wargs
         /\ wtrace' = <<WCall("raw.tasklists", "none", r)>>
         /\ wlogged' = <<>>
         /\ wret' = IF r.kind = "raise" THEN WRaised
                    ELSE IF r.success THEN WReturned(r.data.val)
                    ELSE WReturned(PyEmptyList)
    /\ UNCHANGED notWrapVars

\* get_user_by_email / get_user_by_phone: users[0].user_id or None
UserLookup(name) ==
    /\ wop = "none"
    /\ \E r \in WrapResponses("user.batch_get_id") :
         /\ wop' = name
         /\ wargs' = wargs
         /\ wtrace' = <<WCall("user.batch_get_id", "none", r)>>
         /\ wlogged' = <<>>
         /\ wret' = IF r.kind = "raise" THEN WRaised
                    ELSE IF r.success /\ r.data # NoData /\ r.data.val.v # <<>>
                         THEN WReturned(PyVal("str", <<r.data.val.v[1]>>))
                    ELSE WReturned(PyNone)
    /\ UNCHANGED notWrapVars

get_user_by_email == UserLookup("get_user_by_email")
get_user_by_phone == UserLookup("get_user_by_phone")

\* TaskNotifier._send_message: the flag of the one create call, or False
\* after printing when the call raised.
SendResult(r) ==
    [ok |-> r.kind = "ok",
     log |-> IF r.kind = "raise"
             THEN <<WLog("stdout", "Failed to send message: " \o r.msg)>>
             ELSE <<>>]

\* Concatenation of the logs of a sequence of sends.
RECURSIVE SendLogs(_)
SendLogs(rs) == IF rs = <<>> THEN <<>> ELSE SendResult(Head(rs)).log \o SendLogs(Tail(rs))

send_message ==
    /\ wop = "none"
    /\ \E r \in WrapResponses("message.create"), u \in UserIds :
         /\ wop' = "_send_message"
         /\ wargs' = wargs
         /\ wtrace' = <<WCall("message.create", u, r)>>
         /\ wlogged' = SendResult(r).log
         /\ wret' = WReturned(PyBool(SendResult(r).ok))
    /\ UNCHANGED notWrapVars

\* notify_task_assigned: fetch the task; on success send one card.
notify_task_assigned ==
    /\ wop = "none"
    /\ \E g \in WrapResponses("task.get"), r \in WrapResponses("message.create"),
          u \in UserIds :
         /\ wop' = "notify_task_assigned"
         /\ wargs' = wargs
         /\ IF g.kind = "raise"
            THEN /\ wtrace' = <<WCall("task.get", "none", g)>>
                 /\ wlogged' = <<>>
                 /\ wret' = WRaised
            ELSE IF ~g.success
            THEN /\ wtrace' = <<WCall("task.get", "none", g)>>
                 /\ wlogged' = <<>>
                 /\ wret' = WReturned(PyFalse)
            ELSE /\ wtrace' = <<WCall("task.get", "none", g), WCall("message.create", u, r)>>
                 /\ wlogged' = SendResult(r).log
                 /\ wret' = WReturned(PyBool(SendResult(r).ok))
    /\ UNCHANGED notWrapVars

\* `break` after the first failed send would stop the loop there.
FollowerSendsUntilFailure(followers, rs) ==
    LET bad == {k \in DOMAIN followers : ~SendResult(rs[k]).ok}
        n == IF bad = {} THEN Len(followers)
             ELSE CHOOSE k \in bad : \A j \in bad : k <= j
    IN [k \in 1..n |-> WCall("message.create", followers[k], rs[k])]

\* for follower in task.followers: self._send_message(follower, content)
FollowerSends(followers, rs) ==
    [k \in DOMAIN followers |-> WCall("message.create", followers[k], rs[k])]

\* notify_task_completed: fetch the task; send one card to every follower.
notify_task_completed ==
    /\ wop = "none"
    /\ \E g \in WrapResponses("task.get"), nf \in BOOLEAN,
          followers \in SeqUpTo(UserIds, MaxFollowers) :
       \E rs \in [DOMAIN followers -> WrapResponses("message.create")] :
         /\ wop' = "notify_task_completed"
         /\ wargs' = [notify_followers |-> nf, followers |-> followers]
         /\ IF g.kind = "raise"
            THEN /\ wtrace' = <<WCall("task.get", "none", g)>>
                 /\ wlogged' = <<>>
                 /\ wret' = WRaised
            ELSE IF ~g.success \/ ~nf \/ followers = <<>>
            THEN /\ wtrace' = <<WCall("task.get", "none", g)>>
                 /\ wlogged' = <<>>
                 /\ wret' = WReturned(PyFalse)
            ELSE /\ wtrace' = <<WCall("task.get", "none", g)>> \o FollowerSends(followers, rs)
                 /\ wlogged' = SendLogs(rs)
                 /\ wret' = WReturned(PyBool(\A k \in DOMAIN rs : SendResult(rs[k]).ok))
    /\ UNCHANGED notWrapVars

InitWrap ==
    /\ op = "bulk_delete"
    /\ items = <<>>
    /\ tasklist_id = FALSE
    /\ delay = DefaultDelay
    /\ i = 0
    /\ pc = "idle"
    /\ results = EmptyLedger
    /\ ledgerPos = EmptyLedger
    /\ response = NoResponse
    /\ exc = "none"
    /\ trace = <<>>
    /\ ret = NotReturned
    /\ WrapIdle
    /\ CliIdle
    /\ RepIdle
    /\ ExpIdle
    /\ AsgIdle

NextWrap ==
    \/ create_task
    \/ get_task
    \/ update_task
    \/ complete_task
    \/ delete_task
    \/ list_my_tasks
    \/ list_created_by_me
    \/ list_tasks_by_assignee
    \/ get_tasks_due_soon
    \/ create_tasklist
    \/ get_tasklist
    \/ update_tasklist
    \/ delete_tasklist
    \/ list_tasklists
    \/ add_task_to_tasklist
    \/ list_tasks_in_tasklist
    \/ get_user_by_email
    \/ get_user_by_phone
    \/ send_message
    \/ notify_task_assigned
    \/ notify_task_completed

SpecWrap == InitWrap /\ [][NextWrap]_vars

\* ------------------------------------------------------- wrapper classes
HandleResponseWrappers ==
    {"create_task", "get_task", "update_task", "list_my_tasks", "list_created_by_me",
     "list_tasks_by_assignee", "get_tasks_due_soon", "create_tasklist", "get_tasklist",
     "update_tasklist", "list_tasks_in_tasklist"}
ListWrappers ==
    {"list_my_tasks", "list_created_by_me", "list_tasks_by_assignee",
     "get_tasks_due_soon", "list_tasks_in_tasklist", "list_tasklists"}
FlagWrappers ==
    {"complete_task", "delete_task", "delete_tasklist", "add_task_to_tasklist",
     "_send_message"}
LookupWrappers == {"get_user_by_email", "get_user_by_phone"}
SingleCallWrappers ==
    HandleResponseWrappers \cup ListWrappers \cup FlagWrappers \cup LookupWrappers
FetchAndSendWrappers == {"notify_task_assigned", "notify_task_completed"}

\* The failure value of a wrapper: [] for the list queries, False for the
\* boolean ones, None for the rest.
SentinelOf(w) ==
    IF w \in ListWrappers THEN PyEmptyList
    ELSE IF w \in FlagWrappers \cup FetchAndSendWrappers THEN PyFalse
    ELSE PyNone

\* The payload a wrapper hands back for a successful response r.
UnwrappedPayload(w, r) ==
    IF w \in FlagWrappers THEN PyTrue
    ELSE IF w \in LookupWrappers
         THEN (IF r.data.val.v = <<>> THEN PyNone ELSE PyVal("str", <<r.data.val.v[1]>>))
    ELSE r.data.val

\* C10 (as stated): every single-operation wrapper issues exactly one remote
\* call and returns the unwrapped payload when the success flag is true, or
\* the sentinel after logging a diagnostic when it is false.
OneCallPayloadOrLoggedSentinel ==
    wop # "none" =>
        /\ Len(wtrace) = 1
        /\ wtrace[1].r.kind = "ok" => wret = WReturned(UnwrappedPayload(wop, wtrace[1].r))
        /\ wtrace[1].r.kind = "reject" =>
              /\ wret = WReturned(SentinelOf(wop))
              /\ wlogged # <<>>

\* C10 (amended): every FeishuTaskManager wrapper and _send_message issues
\* exactly one remote call and returns the unwrapped payload when the flag
\* is true, the sentinel when it is false; the diagnostic is printed only by
\* the wrappers that go through _handle_response (and complete_task, which
\* calls one), the others return the sentinel silently.  The notify
\* operations issue one fetch and, when it succeeds, one message call per
\* recipient; they return True iff the fetch and every send succeeded.
WrapperContract ==
    /\ wop \in SingleCallWrappers =>
        /\ Len(wtrace) = 1
        /\ wtrace[1].r.kind = "ok" =>
              /\ wret = WReturned(UnwrappedPayload(wop, wtrace[1].r))
              /\ wlogged = <<>>
        /\ wtrace[1].r.kind = "reject" =>
              /\ wret = WReturned(SentinelOf(wop))
              /\ IF wop \in HandleResponseWrappers \cup {"complete_task"}
                 THEN /\ Len(wlogged) = 1
                      /\ wlogged[1].stream = "stderr"
                 ELSE wlogged = <<>>
    /\ wop \in FetchAndSendWrappers =>
        /\ wtrace[1].api = "task.get"
        /\ \A k \in 2..Len(wtrace) : wtrace[k].api = "message.create"
        /\ wtrace[1].r.kind = "reject" =>
              Len(wtrace) = 1 /\ wret = WReturned(PyFalse) /\ wlogged = <<>>
        /\ wtrace[1].r.kind = "ok" =>
              /\ Len(wtrace) = 1 +
                    (IF wop = "notify_task_assigned" THEN 1
                     ELSE IF wargs.notify_followers THEN Len(wargs.followers) ELSE 0)
              /\ wret = WReturned(PyBool(
                    /\ Len(wtrace) > 1
                    /\ \A k \in 2..Len(wtrace) : wtrace[k].r.kind = "ok"))

RejectionLoggedSentinelReturned ==
    /\ wop = "get_task"
    /\ wtrace[1].r.kind = "reject"
    /\ wtrace[1].r.code = RejectCode
    /\ wret = WReturned(PyNone)
    /\ Len(wlogged) = 1

\* ============================================== claims C11..C20 (bulk part)

\* Number of primary remote calls issued for input position k.
CallCountAt(k) ==
    Cardinality({x \in DOMAIN trace : trace[x].ev = "call" /\ trace[x].pos = k})

\* C11: no retries: every input item causes at most one primary remote
\* call, whether that call succeeds, is rejected or raises, and a batch
\* never issues more primary calls than it has items.
NoRetries ==
    /\ \A k \in 1..Len(items) : CallCountAt(k) <= 1
    /\ Cardinality({x \in DOMAIN trace : trace[x].ev = "call"}) <= Len(items)

FailedCallsNotRetried ==
    /\ pc = "done"
    /\ Len(items) >= 2
    /\ CallOutcomesAt(1) = {"raise"}
    /\ CallOutcomesAt(2) = {"reject"}
    /\ CallCountAt(1) = 1
    /\ CallCountAt(2) = 1

\* The import file could not be opened or parsed.
FileUnreadable ==
    \E j \in DOMAIN trace : trace[j].ev = "open" /\ trace[j].out = "unreadable"

\* C16: with an unreadable import file no item is processed, no
\* remote call is made, no failure is recorded, and the outcome is a ledger
\* with zero successes and zero failures.
UnreadableFileGivesEmptyLedger ==
    FileUnreadable =>
        /\ \A j \in DOMAIN trace : trace[j].ev = "open"
        /\ ret = Returned(EmptyLedger)

\* Input positions that have an entry in the ledger.
Recorded == Range(ledgerPos.ok) \cup Range(ledgerPos.failed)

\* The remote call of item k is issued only once item k-1 is in the ledger,
\* and calls are issued in input order.
Sequential ==
    /\ \A a \in DOMAIN trace :
          (trace[a].ev = "call" /\ trace[a].pos > 1) => (trace[a].pos - 1) \in Recorded
    /\ \A a, b \in DOMAIN trace :
          (a < b /\ trace[a].ev = "call" /\ trace[b].ev = "call") =>
              trace[a].pos < trace[b].pos

\* A ledger reaches the caller only when every item has been through the
\* loop and has its entry.
ReturnedAfterLast ==
    ret.kind = "ledger" =>
        /\ pc = "done"
        /\ i = Len(items)
        /\ \A k \in 1..Len(items) : k \in Recorded
        /\ ret.ledger = results

\* C18: a batch is strictly sequential and runs to completion: the method
\* terminates, the call of item i+1 is never issued before the outcome of
\* item i is in the ledger, and the ledger is returned only after the last
\* item was processed.
RunsToCompletion ==
    /\ <>Finished
    /\ [](Sequential /\ ReturnedAfterLast)

WholeBatchReturned ==
    /\ pc = "done"
    /\ Len(items) >= 2
    /\ ret.kind = "ledger"
    /\ CallCountAt(1) = 1
    /\ CallCountAt(2) = 1
    /\ Len(ret.ledger.ok) + Len(ret.ledger.failed) >= 2

\* The pauses made so far.
Pauses == {x \in DOMAIN trace : trace[x].ev = "sleep"}

\* C19 (as stated): in every bulk operation the delay is a value the caller
\* supplies for that call, and every pause equals it.
DelayConfigurableEverywhere ==
    Pauses # {} =>
        /\ HasDelayParam(op)
        /\ \A x \in Pauses : trace[x].d = delay

\* C19 (amended): every pause that is made lasts the delay argument of the
\* call in bulk_assign, bulk_update_status, bulk_set_due_date and
\* bulk_delete (default 0.2 s), and the literal 0.2 s in import_from_csv and
\* import_from_json, which take no delay argument; it is the same for every
\* item and does not depend on the outcomes before it.
PauseIsFixed ==
    \A x \in Pauses :
        trace[x].d = (IF HasDelayParam(op) THEN delay ELSE DefaultDelay)

SamePauseAfterRejection ==
    /\ pc = "done"
    /\ op \in IdOps
    /\ delay = 0
    /\ CallOutcomesAt(1) = {"reject"}
    /\ CallOutcomesAt(2) = {"ok"}
    /\ \E x, y \in Pauses : trace[x].pos = 1 /\ trace[y].pos = 2

\* =========================================== claims C11..C20 (wrapper part)

\* A remote call of the invocation raised.
SomeCallRaised == \E k \in DOMAIN wtrace : wtrace[k].r.kind = "raise"

\* C12: a transport exception raised by the remote call of a single-shot
\* operation is surfaced at once: a message goes to the error stream and
\* the operation returns its failure sentinel instead of raising.
LocalFaultReturnsSentinel ==
    (wop # "none" /\ SomeCallRaised) =>
        /\ wret = WReturned(SentinelOf(wop))
        /\ \E k \in DOMAIN wlogged : wlogged[k].stream = "stderr"

\* ======================================== credentials and the command line
Scripts == {"task_manager", "bulk_operations", "task_notifier"}

\* A credential as the program sees it: never given (None / variable not
\* set), given as the empty string, or given.
CredValues == {"unset", "", "secret-1"}

\* Python truth of an optional string.
Truthy(x) == x \notin {"unset", ""}

\* `a or b`
PyOr(a, b) == IF Truthy(a) THEN a ELSE b

\* __init__: self.app_id = app_id or os.getenv("FEISHU_APP_ID"), likewise
\* the secret.
EffectiveId == PyOr(cargs.app_id, cenv.app_id)
EffectiveSecret == PyOr(cargs.app_secret, cenv.app_secret)

\* `if not self.app_id or not self.app_secret: raise ValueError(...)`
CredentialsMissingBoth(id, secret) == ~Truthy(id) /\ ~Truthy(secret)
CredentialsMissing(id, secret) == ~Truthy(id) \/ ~Truthy(secret)

\* The text of the ValueError of each class.
CredentialError(script) ==
    IF script = "task_manager"
    THEN "App credentials required. Set FEISHU_APP_ID and FEISHU_APP_SECRET "
         \o "environment variables or pass to constructor."
    ELSE "App credentials required"

\* `if not args.command: parser.print_help()` then sys.exit(1) in
\* bulk_operations and task_notifier, a plain return in task_manager.
ExitNoCommand(script) == IF script = "task_manager" THEN 0 ELSE 1

\* No bulk method is running.
BulkIdle ==
    /\ op = "bulk_delete"
    /\ items = <<>>
    /\ tasklist_id = FALSE
    /\ delay = DefaultDelay
    /\ i = 0
    /\ pc = "idle"
    /\ results = EmptyLedger
    /\ ledgerPos = EmptyLedger
    /\ response = NoResponse
    /\ exc = "none"
    /\ trace = <<>>
    /\ ret = NotReturned

InitCli ==
    /\ BulkIdle
    /\ WrapIdle
    /\ RepIdle
    /\ ExpIdle
    /\ AsgIdle
    /\ centry \in {"cli", "ctor"}
    /\ cscript \in Scripts
    /\ cenv \in [app_id : CredValues, app_secret : CredValues]
    /\ cargs \in (IF centry = "cli"
                  THEN {[app_id |-> "unset", app_secret |-> "unset"]}
                  ELSE [app_id : CredValues, app_secret : CredValues])
    /\ ccmd \in (IF centry = "cli" THEN {"none", "command"} ELSE {"none"})
    /\ cpc = IF centry = "cli" THEN "parse" ELSE "construct"
    /\ cexit = -1
    /\ cout = <<>>
    /\ ccalls = 0

\* args = parser.parse_args(); if not args.command: print_help and leave
ParseArgs ==
    /\ cpc = "parse"
    /\ IF ccmd = "none"
       THEN /\ cout' = Append(cout, "help")
            /\ cexit' = ExitNoCommand(cscript)
            /\ cpc' = "exited"
       ELSE /\ cout' = cout
            /\ cexit' = cexit
            /\ cpc' = "construct"
    /\ UNCHANGED <<centry, cscript, cenv, cargs, ccmd, ccalls>>
    /\ UNCHANGED notCliVars

\* __init__ of the class; in a script it runs inside
\* try: ... except ValueError as e: print(f"Error: {e}"); sys.exit(1)
Construct ==
    /\ cpc = "construct"
    /\ IF CredentialsMissing(EffectiveId, EffectiveSecret)
       THEN IF centry = "cli"
            THEN /\ cout' = Append(cout, "Error: " \o CredentialError(cscript))
                 /\ cexit' = 1
                 /\ cpc' = "exited"
            ELSE /\ cout' = cout
                 /\ cexit' = cexit
                 /\ cpc' = "ValueError"
       ELSE /\ cout' = cout
            /\ cexit' = cexit
            /\ cpc' = "constructed"
    /\ UNCHANGED <<centry, cscript, cenv, cargs, ccmd, ccalls>>
    /\ UNCHANGED notCliVars

\* the branch of the requested command: its first remote call
RunCommand ==
    /\ cpc = "constructed"
    /\ centry = "cli"
    /\ ccalls' = ccalls + 1
    /\ cpc' = "ran"
    /\ UNCHANGED <<centry, cscript, cenv, cargs, ccmd, cexit, cout>>
    /\ UNCHANGED notCliVars

\* the script falls off its end
ExitScript ==
    /\ cpc = "ran"
    /\ cexit' = 0
    /\ cpc' = "exited"
    /\ UNCHANGED <<centry, cscript, cenv, cargs, ccmd, cout, ccalls>>
    /\ UNCHANGED notCliVars

NextCli ==
    \/ ParseArgs
    \/ Construct
    \/ RunCommand
    \/ ExitScript

SpecCli == InitCli /\ [][NextCli]_vars

\* Neither passed to the constructor nor set in the environment.
Absent(name) == cargs[name] = "unset" /\ cenv[name] = "unset"

\* C13: when the app id or the app secret is absent, construction fails
\* with the configuration error before any remote call, and a script that
\* was given a command reports the error and exits with status 1 without
\* running the command.
CredentialsRequired ==
    (Absent("app_id") \/ Absent("app_secret")) =>
        /\ ccalls = 0
        /\ cpc \notin {"constructed", "ran"}
        /\ (centry = "ctor" /\ cpc # "construct") => cpc = "ValueError"
        /\ (centry = "cli" /\ ccmd # "none" /\ cpc = "exited") =>
              /\ cexit = 1
              /\ Len(cout) = 1
              /\ cout[1] = "Error: " \o CredentialError(cscript)

SecretAbsentExitOne ==
    /\ centry = "cli"
    /\ cscript = "bulk_operations"
    /\ ccmd = "command"
    /\ cenv.app_id = "secret-1"
    /\ Absent("app_secret")
    /\ cpc = "exited"
    /\ cexit = 1
    /\ ccalls = 0

\* ================================================== report and daily digest
MaxTasks == 2

\* Status values a task record can carry: the three the code names, "done"
\* for any other value of the API, and the two that collide with the other
\* keys of the report dict.
Statuses == {"todo", "in_progress", "completed", "done", "overdue", "total"}
OpenStatuses == {"todo", "in_progress"}
PartitionKeys == {"todo", "in_progress", "completed"}
ReportKeys == {"total", "todo", "in_progress", "completed", "overdue"}

\* due_time of a record: absent, or an ISO string that is naive, carries a
\* numeric offset ("...+08:00", the form the scripts themselves write) or
\* ends in "Z"; t is the instant it denotes.
NoDue == [form |-> "none", t |-> 0]
DueValues ==
    {NoDue} \cup [form : {"naive"}, t : {1, 3}] \cup [form : {"offset", "Z"}, t : {1}]

TaskKinds == [status : Statuses, due_time : DueValues]

\* The records of a list; task_id tells apart two records that look alike.
MkTasks(a) ==
    [k \in DOMAIN a |-> [task_id |-> k, status |-> a[k].status, due_time |-> a[k].due_time]]

\* task.due_time.replace("Z", "+00:00")
ReplaceZ(d) == IF d.form = "Z" THEN [d EXCEPT !.form = "offset"] ELSE d

\* datetime.fromisoformat: an aware datetime when the string has an offset.
FromIsoFormat(d) == [aware |-> d.form = "offset", t |-> d.t]

\* `due < now` with now = datetime.now(), a naive datetime: comparing an
\* aware datetime with it raises TypeError.
LessThanNow(dt, now) ==
    IF dt.aware THEN "TypeError"
    ELSE IF dt.t < now THEN "yes" ELSE "no"

\* if task.due_time and status in ["todo", "in_progress"]:
\*     due = fromisoformat(...); if due < now: overdue
OverdueCheck(t, now) ==
    IF t.due_time # NoDue /\ t.status \in OpenStatuses
    THEN LessThanNow(FromIsoFormat(ReplaceZ(t.due_time)), now)
    ELSE "no"

\* if status in report: report[status].append(task) ; report["total"] is an
\* int, so a status "total" makes append raise AttributeError.
AppendToTodo(r, t) == [err |-> "none", rep |-> [r EXCEPT !.todo = Append(@, t)]]
AppendByStatus(r, t) ==
    IF t.status \notin ReportKeys THEN [err |-> "none", rep |-> r]
    ELSE IF t.status = "total" THEN [err |-> "AttributeError", rep |-> r]
    ELSE [err |-> "none", rep |-> [r EXCEPT ![t.status] = Append(@, t)]]

RReturned(r) == [kind |-> "report", report |-> r, error |-> "none"]
RRaised(e) == [kind |-> "exception", report |-> EmptyReport, error |-> e]
RBool(b, r) == [kind |-> "bool", report |-> r, error |-> IF b THEN "True" ELSE "False"]

\* The tasks of s whose status is st, in order.
WithStatus(s, st) == SelectSeq(s, LAMBDA t : t.status = st)

\* target = assignee or os.getenv("FEISHU_USER_ID")
Targets == {"", "ou_1"}

\* Longer lists of one kind of task: open and past due, or open with no due
\* time.
MaxLong == 12
LongKinds ==
    {[status |-> "todo", due_time |-> [form |-> "naive", t |-> 1]],
     [status |-> "in_progress", due_time |-> NoDue]}
LongLists == {MkTasks([k \in 1..n |-> kind]) : n \in 3..MaxLong, kind \in LongKinds}

InitRep ==
    /\ BulkIdle
    /\ WrapIdle
    /\ CliIdle
    /\ ExpIdle
    /\ AsgIdle
    /\ rop \in {"generate_task_report", "send_daily_digest", "remind_due_soon"}
    /\ rremote \in {MkTasks(a) : a \in SeqUpTo(TaskKinds, MaxTasks)} \cup LongLists
    /\ rtarget \in IF rop = "generate_task_report" THEN {"ou_1"} ELSE Targets
    /\ rcard = NoCard
    /\ rsent = <<>>
    /\ rnow \in {2}
    /\ rpc = "fetch"
    /\ rfetched = <<>>
    /\ rk = 0
    /\ report = EmptyReport
    /\ rret = RNotReturned

\* generate_task_report: tasks = self.list_my_tasks(...) (a rejection gives
\* []), then report = {"total": len(tasks), ...}
ReportFetch ==
    /\ rpc = "fetch"
    /\ rop = "generate_task_report"
    /\ \E o \in CallOutcomes :
         IF o = "raise"
         THEN /\ rpc' = "raised"
              /\ rret' = RRaised("connection error")
              /\ UNCHANGED <<rfetched, report>>
         ELSE /\ rfetched' = IF o = "ok" THEN rremote ELSE <<>>
              /\ report' = [EmptyReport EXCEPT !.total = Len(rfetched')]
              /\ rpc' = "loop"
              /\ rret' = rret
    /\ UNCHANGED <<rop, rremote, rnow, rk>>
    /\ UNCHANGED <<rtarget, rcard, rsent>>
    /\ UNCHANGED notRepVars

\* one pass of `for task in tasks:` of generate_task_report
ReportStep ==
    /\ rpc = "loop"
    /\ rk < Len(rfetched)
    /\ LET t == rfetched[rk + 1]
           a == AppendByStatus(report, t)
           c == OverdueCheck(t, rnow)
       IN IF a.err # "none"
          THEN /\ rpc' = "raised"
               /\ rret' = RRaised(a.err)
               /\ UNCHANGED <<rk, report>>
          ELSE IF c = "TypeError"
          THEN /\ rpc' = "raised"
               /\ rret' = RRaised(c)
               /\ report' = a.rep
               /\ rk' = rk
          ELSE /\ rpc' = rpc
               /\ rret' = rret
               /\ rk' = rk + 1
               /\ report' = IF c = "yes"
                            THEN [a.rep EXCEPT !.overdue = Append(@, t)]
                            ELSE a.rep
    /\ UNCHANGED <<rop, rremote, rnow, rfetched>>
    /\ UNCHANGED <<rtarget, rcard, rsent>>
    /\ UNCHANGED notRepVars

\* return report
ReportReturn ==
    /\ rpc = "loop"
    /\ rk = Len(rfetched)
    /\ rpc' = "done"
    /\ rret' = RReturned(report)
    /\ UNCHANGED <<rop, rremote, rnow, rfetched, rk, report>>
    /\ UNCHANGED <<rtarget, rcard, rsent>>
    /\ UNCHANGED notRepVars

\* send_daily_digest: no target returns False before any call; then the list
\* call, whose rejection returns False
DigestFetch ==
    /\ rpc = "fetch"
    /\ rop = "send_daily_digest"
    /\ \E o \in CallOutcomes :
         IF rtarget = ""
         THEN /\ rpc' = "done"
              /\ rret' = RBool(FALSE, EmptyReport)
              /\ rfetched' = rfetched
         ELSE IF o = "raise"
         THEN /\ rpc' = "raised"
              /\ rret' = RRaised("connection error")
              /\ rfetched' = rfetched
         ELSE IF o = "reject"
         THEN /\ rpc' = "done"
              /\ rret' = RBool(FALSE, EmptyReport)
              /\ rfetched' = rfetched
         ELSE /\ rpc' = "classify"
              /\ rret' = rret
              /\ rfetched' = rremote
    /\ UNCHANGED <<rop, rremote, rnow, rk, report>>
    /\ UNCHANGED <<rtarget, rcard, rsent>>
    /\ UNCHANGED notRepVars

\* overdue = [t for t in tasks if t.status in [..] and t.due_time and ... < now]
DigestOverdue(tasks, now) == SelectSeq(tasks, LAMBDA t : OverdueCheck(t, now) = "yes")

\* send_daily_digest: the four list comprehensions
DigestClassify ==
    /\ rpc = "classify"
    /\ IF \E k \in DOMAIN rfetched : OverdueCheck(rfetched[k], rnow) = "TypeError"
       THEN /\ rpc' = "raised"
            /\ rret' = RRaised("TypeError")
            /\ report' = report
       ELSE /\ rpc' = "send"
            /\ rret' = rret
            /\ report' = [total |-> 0,
                          todo |-> WithStatus(rfetched, "todo"),
                          in_progress |-> WithStatus(rfetched, "in_progress"),
                          completed |-> WithStatus(rfetched, "completed"),
                          overdue |-> DigestOverdue(rfetched, rnow)]
    /\ UNCHANGED <<rop, rremote, rnow, rfetched, rk>>
    /\ UNCHANGED <<rtarget, rcard, rsent>>
    /\ UNCHANGED notRepVars

\* xs[:n]
Take(xs, n) == SubSeq(xs, 1, IF Len(xs) < n THEN Len(xs) ELSE n)

\* N of `... and {len(xs) - n} more`, appended when len(xs) > n
MoreCount(xs, n) == IF Len(xs) > n THEN Len(xs) - n ELSE 0

DigestLimit == 5

\* send_daily_digest: the card with the four counts and the first overdue
\* tasks, then return self._send_message(target, content)
DigestSend ==
    /\ rpc = "send"
    /\ rop = "send_daily_digest"
    /\ \E o \in CallOutcomes :
         /\ rret' = RBool(o = "ok", report)
         /\ rsent' = Append(rsent, o)
         /\ rpc' = "done"
    /\ rcard' = [counts |-> <<Len(report.todo), Len(report.in_progress),
                              Len(report.completed), Len(report.overdue)>>,
                 shown |-> Take(report.overdue, DigestLimit),
                 more |-> MoreCount(report.overdue, DigestLimit)]
    /\ UNCHANGED <<rop, rremote, rnow, rfetched, rk, report, rtarget>>
    /\ UNCHANGED notRepVars

\* ---- remind_due_soon
CardLimit == 10

RIds(ids) == [kind |-> "ids", report |-> EmptyReport, error |-> "none", ids |-> ids]

\* return [t.task_id for t in tasks]
RemindIdsShownOnly(tasks) == [k \in DOMAIN Take(tasks, CardLimit) |-> tasks[k].task_id]
RemindIds(tasks) == [k \in DOMAIN tasks |-> tasks[k].task_id]

\* remind_due_soon up to `if not tasks: return []`: no target, a rejected
\* list call and an empty list all return [] before any card is built
RemindFetch ==
    /\ rpc = "fetch"
    /\ rop = "remind_due_soon"
    /\ \E o \in CallOutcomes :
         IF rtarget = ""
         THEN /\ rpc' = "done"
              /\ rret' = RIds(<<>>)
              /\ rfetched' = rfetched
         ELSE IF o = "raise"
         THEN /\ rpc' = "raised"
              /\ rret' = RRaised("connection error")
              /\ rfetched' = rfetched
         ELSE IF o = "reject"
         THEN /\ rpc' = "done"
              /\ rret' = RIds(<<>>)
              /\ rfetched' = rfetched
         ELSE /\ rfetched' = rremote
              /\ rpc' = IF rremote = <<>> THEN "done" ELSE "send"
              /\ rret' = IF rremote = <<>> THEN RIds(<<>>) ELSE rret
    /\ UNCHANGED <<rop, rremote, rnow, rk, report, rtarget, rcard, rsent>>
    /\ UNCHANGED notRepVars

\* the card listing tasks[:10], then `if self._send_message(target, content):
\* return [t.task_id for t in tasks]` and `return []` otherwise
RemindSend ==
    /\ rpc = "send"
    /\ rop = "remind_due_soon"
    /\ rcard' = [counts |-> <<Len(rfetched)>>,
                 shown |-> Take(rfetched, CardLimit),
                 more |-> MoreCount(rfetched, CardLimit)]
    /\ \E o \in CallOutcomes :
         /\ rsent' = Append(rsent, o)
         /\ rret' = RIds(IF o = "ok" THEN RemindIds(rfetched) ELSE <<>>)
    /\ rpc' = "done"
    /\ UNCHANGED <<rop, rremote, rnow, rfetched, rk, report, rtarget>>
    /\ UNCHANGED notRepVars

NextRep ==
    \/ RemindFetch
    \/ RemindSend
    \/ ReportFetch
    \/ ReportStep
    \/ ReportReturn
    \/ DigestFetch
    \/ DigestClassify
    \/ DigestSend

SpecRep == InitRep /\ [][NextRep]_vars

\* ------------------------------------------- claims C11..C20 (report part)
InSeq(t, s) == \E j \in DOMAIN s : s[j] = t

\* The list call succeeded with at least one task and the classification of
\* the fetched list has ended, by a result or by an exception.
ClassificationEnded ==
    /\ rop \in {"generate_task_report", "send_daily_digest"}
    /\ rfetched # <<>>
    /\ rpc \in {"send", "done", "raised"}

StandardStatusesOnly == \A k \in DOMAIN rfetched : rfetched[k].status \in PartitionKeys

DueBeforeNow(t) == t.due_time # NoDue /\ t.due_time.t < rnow

\* C14: when generate_task_report or send_daily_digest has classified a
\* fetched list whose statuses are todo / in_progress / completed, no
\* exception was raised and a task is in the overdue partition exactly when
\* its status is todo or in_progress and its due timestamp, in any form
\* (naive, with offset, with Z), is earlier than now; a completed task with
\* the same due timestamp is not in it.
OverdueClassification ==
    (ClassificationEnded /\ StandardStatusesOnly) =>
        /\ rret.kind # "exception"
        /\ \A k \in DOMAIN rfetched :
             InSeq(rfetched[k], report.overdue)
                <=> (rfetched[k].status \in OpenStatuses /\ DueBeforeNow(rfetched[k]))

PartitionSizes == Len(report.todo) + Len(report.in_progress) + Len(report.completed)

InPartitions(t) == {st \in PartitionKeys : InSeq(t, report[st])}

\* C15 as stated: in the report generate_task_report returns, every fetched
\* task is in exactly one of todo / in_progress / completed, and the sizes of
\* the three sum to report["total"], the number of fetched tasks.
EveryTaskInOnePartition ==
    (rop = "generate_task_report" /\ rpc = "done") =>
        /\ \A k \in DOMAIN rfetched : Cardinality(InPartitions(rfetched[k])) = 1
        /\ PartitionSizes = report.total
        /\ report.total = Len(rfetched)

Seen == SubSeq(rfetched, 1, rk)

\* C15 amended: while generate_task_report builds its report and when it
\* returns it, each of todo / in_progress / completed holds exactly the tasks
\* seen so far whose status is its name, in fetch order; a task is in at most
\* one of the three, and in none when its status is another value; total is
\* the number of fetched tasks, so the three sizes sum to the number of
\* fetched tasks with one of the three statuses.
PartitionByKnownStatus ==
    (rop = "generate_task_report" /\ rpc \in {"loop", "done"}) =>
        /\ \A st \in PartitionKeys : report[st] = WithStatus(Seen, st)
        /\ \A k \in 1..rk :
             InPartitions(rfetched[k]) = {rfetched[k].status} \cap PartitionKeys
        /\ report.total = Len(rfetched)
        /\ PartitionSizes =
             Cardinality({k \in 1..rk : rfetched[k].status \in PartitionKeys})

\* A report was returned for a list holding a task that has one of the three
\* statuses and a task that has another one.
ReportWithUnknownStatus ==
    /\ rop = "generate_task_report"
    /\ rpc = "done"
    /\ \E k \in DOMAIN rfetched : rfetched[k].status \in PartitionKeys
    /\ \E k \in DOMAIN rfetched : rfetched[k].status = "done"
    /\ PartitionSizes < report.total

\* =========================================================== export_to_csv
\* Text is a sequence of characters; a run of ordinary characters (letters,
\* digits, blanks) is written as one element, the four characters the csv
\* module treats specially are elements of their own.
Comma == ","
Quote == "\""
CR == "\r"
LF == "\n"
SpecialChars == {Comma, Quote, CR, LF}

\* An attribute that may be None.
None == [some |-> FALSE, v |-> <<>>]
Some(v) == [some |-> TRUE, v |-> v]

\* x or ""
OrEmpty(x) == IF x.some /\ x.v # <<>> THEN x.v ELSE <<>>

IdValues == {<<"t1">>, <<"t2">>}
SummaryValues ==
    {<<"a">>, <<"a", Comma, "b">>, <<"a", LF, "b">>, <<Quote, "a", Quote>>}
DescriptionValues == {None, Some(<<>>), Some(<<"d">>)}
ExportKinds ==
    [task_id : IdValues, summary : SummaryValues, description : DescriptionValues]

\* The records of a list; status, created_time and url are plain text and
\* assignee and due_time are None in all of them.
ExportTasks(a) ==
    [k \in DOMAIN a |->
        [task_id |-> a[k].task_id, summary |-> a[k].summary,
         description |-> a[k].description, status |-> <<"todo">>,
         assignee |-> None, due_time |-> None,
         created_time |-> <<"c">>, url |-> <<"u">>]]

Header ==
    << <<"task_id">>, <<"summary">>, <<"description">>, <<"status">>,
       <<"assignee">>, <<"due_time">>, <<"created_time">>, <<"url">> >>

\* the list passed to writer.writerow for one task
RowOf(t) ==
    << t.task_id, t.summary, OrEmpty(t.description), t.status,
       OrEmpty(t.assignee), OrEmpty(t.due_time), t.created_time, t.url >>

\* csv.writer, dialect excel (QUOTE_MINIMAL, doublequote, "\r\n"): a field
\* is quoted when it holds the delimiter, the quote character or a character
\* of the line terminator; quotes inside it are doubled.
NeverQuote(f) == FALSE
NeedsQuoting(f) == \E k \in DOMAIN f : f[k] \in SpecialChars

RECURSIVE DoubleQuotes(_)
DoubleQuotes(f) ==
    IF f = <<>> THEN <<>>
    ELSE (IF Head(f) = Quote THEN <<Quote, Quote>> ELSE <<Head(f)>>)
            \o DoubleQuotes(Tail(f))

WriteField(f) ==
    IF NeedsQuoting(f) THEN <<Quote>> \o DoubleQuotes(f) \o <<Quote>> ELSE f

RECURSIVE JoinFields(_)
JoinFields(fs) ==
    IF Len(fs) = 1 THEN WriteField(fs[1])
    ELSE WriteField(Head(fs)) \o <<Comma>> \o JoinFields(Tail(fs))

WriteRow(fs) == JoinFields(fs) \o <<CR, LF>>

\* csv.reader over the file opened with newline='', dialect excel: the
\* reader's state machine, one character at a time. st is START_RECORD (also
\* while line-end characters are eaten), START_FIELD, IN_FIELD,
\* IN_QUOTED_FIELD or QUOTE_IN_QUOTED_FIELD; field and row are the field and
\* the record being read, rows the records read so far.
RECURSIVE ParseFrom(_, _, _, _, _)
ParseFrom(cs, st, field, row, rows) ==
    IF cs = <<>>
    THEN IF st = "START_RECORD" THEN rows ELSE Append(rows, Append(row, field))
    ELSE LET c == Head(cs)
             rest == Tail(cs)
             endField == ParseFrom(rest, "START_FIELD", <<>>, Append(row, field), rows)
             endRecord == ParseFrom(rest, "START_RECORD", <<>>, <<>>,
                                    Append(rows, Append(row, field)))
         IN CASE st = "START_RECORD" /\ c \in {CR, LF} ->
                     ParseFrom(rest, "START_RECORD", <<>>, <<>>, rows)
              [] st \in {"START_RECORD", "START_FIELD"} /\ c = Quote ->
                     ParseFrom(rest, "IN_QUOTED_FIELD", <<>>, row, rows)
              [] st \in {"START_RECORD", "START_FIELD"} /\ c = Comma -> endField
              [] st = "START_FIELD" /\ c \in {CR, LF} -> endRecord
              [] st \in {"START_RECORD", "START_FIELD"} /\ c \notin SpecialChars ->
                     ParseFrom(rest, "IN_FIELD", <<c>>, row, rows)
              [] st = "IN_FIELD" /\ c = Comma -> endField
              [] st = "IN_FIELD" /\ c \in {CR, LF} -> endRecord
              [] st = "IN_FIELD" /\ c \notin {Comma, CR, LF} ->
                     ParseFrom(rest, "IN_FIELD", Append(field, c), row, rows)
              [] st = "IN_QUOTED_FIELD" /\ c = Quote ->
                     ParseFrom(rest, "QUOTE_IN_QUOTED_FIELD", field, row, rows)
              [] st = "IN_QUOTED_FIELD" /\ c # Quote ->
                     ParseFrom(rest, "IN_QUOTED_FIELD", Append(field, c), row, rows)
              [] st = "QUOTE_IN_QUOTED_FIELD" /\ c = Quote ->
                     ParseFrom(rest, "IN_QUOTED_FIELD", Append(field, Quote), row, rows)
              [] st = "QUOTE_IN_QUOTED_FIELD" /\ c = Comma -> endField
              [] st = "QUOTE_IN_QUOTED_FIELD" /\ c \in {CR, LF} -> endRecord
              [] st = "QUOTE_IN_QUOTED_FIELD" /\ c \notin SpecialChars ->
                     ParseFrom(rest, "IN_FIELD", Append(field, c), row, rows)

ParseCsv(cs) == ParseFrom(cs, "START_RECORD", <<>>, <<>>, <<>>)

\* output_path, or tasks_export_{timestamp}.csv when none was given
DefaultPath == "tasks_export_timestamp.csv"
RawPath(path) == path
ResolvedPath(path) == IF path = "" THEN DefaultPath ELSE path

EReturned(v) == [kind |-> "returned", value |-> v, error |-> "none"]
ERaised(e) == [kind |-> "exception", value |-> "", error |-> e]
PrintOutcomes == {"ok", "raise"}
WriteOutcomes == {"ok", "unwritable"}

InitExp ==
    /\ BulkIdle
    /\ WrapIdle
    /\ CliIdle
    /\ RepIdle
    /\ AsgIdle
    /\ epath \in {"", "out.csv"}
    /\ eremote \in {ExportTasks(a) : a \in SeqUpTo(ExportKinds, MaxTasks)}
    /\ epc = "fetch"
    /\ etasks = <<>>
    /\ ek = 0
    /\ efile = NoFile
    /\ eret = ENotReturned

\* the list call (tasklist.list_task or task.list); a rejection prints the
\* error and returns ""
ExportFetch ==
    /\ epc = "fetch"
    /\ \E o \in CallOutcomes, pr \in PrintOutcomes :
         IF o = "raise"
         THEN /\ epc' = "raised"
              /\ eret' = ERaised("connection error")
              /\ etasks' = etasks
         ELSE IF o = "reject"
         THEN /\ epc' = IF pr = "ok" THEN "done" ELSE "raised"
              /\ eret' = IF pr = "ok" THEN EReturned("") ELSE ERaised("print failed")
              /\ etasks' = etasks
         ELSE /\ epc' = "open"
              /\ eret' = eret
              /\ etasks' = eremote
    /\ UNCHANGED <<epath, eremote, ek, efile>>
    /\ UNCHANGED notExpVars

\* with open(output_path, 'w', newline='') as f: the header row
ExportOpen ==
    /\ epc = "open"
    /\ \E w \in WriteOutcomes :
         IF w = "ok"
         THEN /\ efile' = [exists |-> TRUE, closed |-> FALSE,
                            path |-> ResolvedPath(epath), content |-> WriteRow(Header)]
              /\ epc' = "rows"
              /\ eret' = eret
         ELSE /\ efile' = efile
              /\ epc' = "raised"
              /\ eret' = ERaised("output file unwritable")
    /\ UNCHANGED <<epath, eremote, etasks, ek>>
    /\ UNCHANGED notExpVars

\* one pass of `for task in tasks: writer.writerow([...])`
ExportRow ==
    /\ epc = "rows"
    /\ ek < Len(etasks)
    /\ efile' = [efile EXCEPT !.content = @ \o WriteRow(RowOf(etasks[ek + 1]))]
    /\ ek' = ek + 1
    /\ UNCHANGED <<epath, eremote, epc, etasks, eret>>
    /\ UNCHANGED notExpVars

\* the with block ends: the file is closed
ExportClose ==
    /\ epc = "rows"
    /\ ek = Len(etasks)
    /\ efile' = [efile EXCEPT !.closed = TRUE]
    /\ epc' = "print"
    /\ UNCHANGED <<epath, eremote, etasks, ek, eret>>
    /\ UNCHANGED notExpVars

\* print(f"... Exported {len(tasks)} tasks to {output_path}"); return output_path
ExportFinish ==
    /\ epc = "print"
    /\ \E pr \in PrintOutcomes :
         IF pr = "ok"
         THEN /\ epc' = "done"
              /\ eret' = EReturned(ResolvedPath(epath))
         ELSE /\ epc' = "raised"
              /\ eret' = ERaised("print failed")
    /\ UNCHANGED <<epath, eremote, etasks, ek, efile>>
    /\ UNCHANGED notExpVars

NextExp ==
    \/ ExportFetch
    \/ ExportOpen
    \/ ExportRow
    \/ ExportClose
    \/ ExportFinish

SpecExp == InitExp /\ [][NextExp]_vars

\* ------------------------------------------- claims C11..C20 (export part)
\* The file parses to the header followed by one record per task of ts, in
\* order, each with the fields that were written.
ParsesTo(ts) ==
    LET rows == ParseCsv(efile.content)
    IN /\ Len(rows) = 1 + Len(ts)
       /\ rows[1] = Header
       /\ \A k \in DOMAIN ts : rows[k + 1] = RowOf(ts[k])
       /\ {rows[k][1] : k \in 2..Len(rows)} = {ts[k].task_id : k \in DOMAIN ts}

\* C17: once export_to_csv has written and closed the file, parsing it as
\* CSV gives the header followed by exactly one record per fetched task, in
\* fetch order, each with the eight fields that were written; so the task_id
\* column holds the same set of task ids as the exported list.
CsvRoundTrip ==
    efile.closed => (etasks = eremote /\ ParsesTo(etasks))

\* A list of two tasks, one of whose summaries had to be quoted, was
\* exported and the path returned.
ExportedQuotedSummaries ==
    /\ eret.kind = "returned"
    /\ eret.value # ""
    /\ Len(etasks) = MaxTasks
    /\ \E k \in DOMAIN etasks : LF \in {etasks[k].summary[j] : j \in DOMAIN etasks[k].summary}

\* ------------------------------------------- claims C21..C27 (report part)
\* C21: in every report generate_task_report returns, each task of the
\* overdue partition has status todo or in_progress, a due time before now,
\* and is also in the todo or the in_progress partition; a task with any
\* other status is not in overdue, and total is still the number of fetched
\* tasks.
OverdueWithinOpenPartitions ==
    (rop = "generate_task_report" /\ rpc = "done") =>
        /\ \A j \in DOMAIN report.overdue :
             /\ report.overdue[j].status \in OpenStatuses
             /\ DueBeforeNow(report.overdue[j])
             /\ InSeq(report.overdue[j], report.todo \o report.in_progress)
        /\ report.total = Len(rfetched)

\* ------------------------------------------ claims C21..C27 (wrapper part)
\* C22: when the fetch of notify_task_completed succeeds, notify_followers is
\* true and the task has followers, one message is attempted per follower,
\* in follower order, whatever the earlier sends gave, and the result is True
\* exactly when every send succeeded; when the fetch is rejected,
\* notify_followers is false or there is no follower, no message is sent and
\* the result is False.
EveryFollowerNotified ==
    (wop = "notify_task_completed" /\ wtrace[1].r.kind # "raise") =>
        LET sends == Tail(wtrace)
        IN IF wtrace[1].r.success /\ wargs.notify_followers /\ wargs.followers # <<>>
           THEN /\ Len(sends) = Len(wargs.followers)
                /\ \A k \in DOMAIN sends :
                     /\ sends[k].api = "message.create"
                     /\ sends[k].to = wargs.followers[k]
                /\ wret = WReturned(PyBool(\A k \in DOMAIN sends : sends[k].r.kind = "ok"))
           ELSE /\ sends = <<>>
                /\ wret = WReturned(PyFalse)

\* The first of two sends failed, the second was still attempted and
\* succeeded, and the result is False.
SecondFollowerSentAfterFailure ==
    /\ wop = "notify_task_completed"
    /\ Len(wtrace) = 3
    /\ wtrace[2].r.kind \in {"reject", "raise"}
    /\ wtrace[3].r.kind = "ok"
    /\ wret = WReturned(PyFalse)

\* ----------------------------------------- claims C21..C27 (notifier part)
\* C23: remind_due_soon issues at most one message call; once it has
\* returned, the result is the task ids of all fetched tasks, in order, when
\* that one message was sent successfully and the empty list otherwise; with
\* no target, a rejected fetch or an empty fetched list no message is sent;
\* the card of a message lists the first 10 fetched tasks and, when more than
\* 10 were fetched, the count of the others.
OneReminderForAllTasks ==
    rop = "remind_due_soon" =>
        /\ Len(rsent) <= 1
        /\ rpc = "done" =>
             /\ rret.kind = "ids"
             /\ rret.ids = IF rsent = <<"ok">>
                           THEN [k \in DOMAIN rfetched |-> rfetched[k].task_id]
                           ELSE <<>>
             /\ (rsent = <<"ok">>) <=> (rret.ids # <<>>)
        /\ (rtarget = "" \/ rfetched = <<>>) => rsent = <<>>
        /\ rsent # <<>> =>
             /\ rcard.counts = <<Len(rfetched)>>
             /\ Len(rcard.shown) <= 10
             /\ rcard.shown = SubSeq(rfetched, 1, Len(rcard.shown))
             /\ IF Len(rfetched) > 10
                THEN Len(rcard.shown) = 10 /\ rcard.more = Len(rfetched) - 10
                ELSE rcard.shown = rfetched /\ rcard.more = 0

\* A reminder for more than 10 tasks was sent: the card lists 10 and counts
\* the others, the result holds every task id.
ReminderForMoreThanShown ==
    /\ rop = "remind_due_soon"
    /\ rpc = "done"
    /\ rsent = <<"ok">>
    /\ Len(rfetched) > CardLimit + 1
    /\ Len(rret.ids) = Len(rfetched)
    /\ rcard.more = Len(rfetched) - CardLimit


\* C27: the overdue partition of a report generate_task_report returns is
\* the list send_daily_digest computes as overdue from the same fetched list
\* at the same time; and the card of a digest counts every overdue task,
\* lists the first 5 of them and, when there are more than 5, the count of
\* the others.
SameOverdueRule ==
    /\ (rop = "generate_task_report" /\ rpc = "done") =>
          report.overdue = DigestOverdue(rfetched, rnow)
    /\ (rop = "send_daily_digest" /\ rsent # <<>>) =>
          /\ rcard.counts[4] = Len(report.overdue)
          /\ Len(rcard.shown) <= 5
          /\ rcard.shown = SubSeq(report.overdue, 1, Len(rcard.shown))
          /\ IF Len(report.overdue) > 5
             THEN Len(rcard.shown) = 5 /\ rcard.more = Len(report.overdue) - 5
             ELSE rcard.shown = report.overdue /\ rcard.more = 0


\* ------------------------------------------- claims C21..C27 (export part)
\* C24: the step of export_to_csv that makes the list call leaves no file
\* behind, and after a rejection it can only return ""; a file exists only
\* once the fetched list is in hand, under the path given or the default
\* one; "" is returned only with no file created, and a path is returned
\* only when the file of that path has been written and closed.
ExportTouchesFileOnlyAfterFetch ==
    /\ [](/\ epc \in {"fetch", "open"} => efile = NoFile
          /\ eret = EReturned("") => efile = NoFile
          /\ efile.exists => (etasks = eremote /\ efile.path # "")
          /\ (eret.kind = "returned" /\ eret.value # "") =>
                (efile.closed /\ eret.value = efile.path /\ ek = Len(etasks)))
    /\ [][epc = "fetch" =>
            /\ efile' = NoFile
            /\ epc' \in {"open", "done", "raised"}
            /\ epc' = "done" => eret' = EReturned("")]_vars

\* The list call was rejected although the remote holds tasks: "" came back
\* and there is no file.
RejectedExportLeftNoFile ==
    /\ epc = "done"
    /\ eret = EReturned("")
    /\ eremote # <<>>
    /\ etasks = <<>>
    /\ efile = NoFile


\* ------------------------------------ claims C21..C27 (update and complete)
SentFields == DOMAIN wtrace[1].body

\* C25: complete_task issues one update whose body is just status
\* "completed" and returns True exactly when that update reported success;
\* update_task issues exactly one update call, whose body holds exactly the
\* fields passed as non-empty values, each with the value passed, so a field
\* passed as None or "" is not sent.
UpdateSendsGivenFields ==
    /\ wop = "complete_task" =>
         /\ Len(wtrace) = 1
         /\ wtrace[1].api = "task.update"
         /\ SentFields = {"status"}
         /\ wtrace[1].body["status"] = "completed"
         /\ wret.kind = "return" =>
              /\ wret.val \in {PyTrue, PyFalse}
              /\ (wret.val = PyTrue) <=> wtrace[1].r.success
    /\ wop = "update_task" =>
         /\ Len(wtrace) = 1
         /\ wtrace[1].api = "task.update"
         /\ SentFields =
              {f \in UpdateFields : wargs.fields[f] # ArgNone /\ wargs.fields[f] # Arg("")}
         /\ \A f \in SentFields :
              wtrace[1].body[f] = wargs.fields[f].v /\ wtrace[1].body[f] # ""

\* update_task was called with an empty title and a status: only the status
\* was sent.
EmptyTitleNotSent ==
    /\ wop = "update_task"
    /\ wret.kind = "return"
    /\ wargs.fields["summary"] = Arg("")
    /\ wargs.fields["status"] = Arg("v")
    /\ SentFields = {"status"}


\* ============================== import_from_csv: the assignee of a request
\* The part of the loop body of import_from_csv that decides the assignee of
\* the task to create; the call, the ledger and the pause are in Spec.
MaxRows == 3

\* row.get("assignee"): None when the column is missing, else its text
RowAssignees == {ArgNone, Arg(""), Arg("ou_1")}
DefaultAssignees == {ArgNone, Arg(""), Arg("ou_9")}

ArgTruthy(a) == a.given /\ a.v # ""

\* assignee = row.get("assignee") or default_assignee
AssigneeDefaultFirst(rowAssignee, default) ==
    IF ArgTruthy(default) THEN default ELSE rowAssignee
AssigneeOf(rowAssignee, default) ==
    IF ArgTruthy(rowAssignee) THEN rowAssignee ELSE default

\* if assignee: body = body.assignee(assignee)
NoAssignee == [sent |-> FALSE, v |-> ""]
SentAssignee(v) == [sent |-> TRUE, v |-> v]
BodyAssignee(a) == IF ArgTruthy(a) THEN SentAssignee(a.v) ELSE NoAssignee

InitAsg ==
    /\ BulkIdle
    /\ WrapIdle
    /\ CliIdle
    /\ RepIdle
    /\ ExpIdle
    /\ arows \in SeqUpTo(RowAssignees, MaxRows)
    /\ adefault \in DefaultAssignees
    /\ ak = 0
    /\ abodies = <<>>

\* one pass of `for row in reader:` up to body.build()
BuildRowBody ==
    /\ ak < Len(arows)
    /\ abodies' = Append(abodies, BodyAssignee(AssigneeOf(arows[ak + 1], adefault)))
    /\ ak' = ak + 1
    /\ UNCHANGED <<arows, adefault>>
    /\ UNCHANGED notAsgVars

NextAsg == BuildRowBody

SpecAsg == InitAsg /\ [][NextAsg]_vars

\* C26: the request built for a row carries the row's own assignee whenever
\* that field is non-empty, whatever the default is; it carries the default
\* assignee only when the row's field is empty or missing and the default is
\* non-empty; with neither it carries no assignee.
RowAssigneeWins ==
    /\ Len(abodies) = ak
    /\ \A k \in 1..ak :
         IF arows[k] \notin {ArgNone, Arg("")}
         THEN abodies[k] = SentAssignee(arows[k].v)
         ELSE IF adefault \notin {ArgNone, Arg("")}
         THEN abodies[k] = SentAssignee(adefault.v)
         ELSE abodies[k] = NoAssignee

\* With a default given, a row with its own assignee kept it and a row with
\* an empty field got the default.
OwnAssigneeKeptDefaultFilledIn ==
    /\ ak >= 2
    /\ adefault = Arg("ou_9")
    /\ arows[1] = Arg("ou_1")
    /\ arows[2] = Arg("")
    /\ abodies[1] = SentAssignee("ou_1")
    /\ abodies[2] = SentAssignee("ou_9")

====
